---- MODULE Spec2Model ----
(***************************************************************************)
(* Weighted-ensemble resampling with ensemble reweighting (WEER).          *)
(*                                                                         *)
(* The model follows WEERDriver._run_we (src/odld/weer_driver.py) step by  *)
(* step and WEER.optimize_weights (src/odld/weer.py); the constructor and  *)
(* the histograms of WEER have a specification of their own, SpecWEER.     *)
(* Walker weights are exact rationals <<numerator, denominator>>;          *)
(* floating-point rounding is not modelled.  The helpers that WEERDriver  *)
(* inherits from its base class WEDriver (imported from                    *)
(* westpa.core.we_driver, not part of this tree) are modelled after        *)
(* section 4.2 of the design and the base class's method of the same name. *)
(***************************************************************************)
EXTENDS Integers, Sequences, FiniteSets, TLC

(***************************************************************************)
(* Bounds of the model.                                                    *)
(***************************************************************************)
\* number of walkers in the ensemble when _run_we starts: 1..MaxWalkers
MaxWalkers == 2
\* bin target counts range over 0..MaxTarget
MaxTarget == 2
\* weights are drawn from the multiples of 1/WeightUnits
WeightUnits == 4

\* the bins of next_iter_binning
Bins == {1, 2}

(***************************************************************************)
(* Exact rational arithmetic on <<n, d>>, n >= 0, d >= 0 (d = 0 is the     *)
(* float inf that numpy yields for a division by zero).                    *)
(***************************************************************************)
RECURSIVE GCD(_, _)
GCD(a, b) ==
    IF b = 0 THEN a ELSE GCD(b, a % b)

Norm(n, d) ==
    IF n = 0 /\ d # 0 THEN <<0, 1>>
    ELSE LET g == GCD(n, d) IN <<n \div g, d \div g>>

Zero == <<0, 1>>

One == <<1, 1>>

RAdd(a, b) == Norm(a[1] * b[2] + b[1] * a[2], a[2] * b[2])

RLt(a, b) == a[1] * b[2] < b[1] * a[2]

RLe(a, b) == a[1] * b[2] <= b[1] * a[2]

RDivInt(a, k) == Norm(a[1], a[2] * k)

\* int(math.ceil(a / b)) for b > 0
RCeilDiv(a, b) == (a[1] * b[2] + a[2] * b[1] - 1) \div (a[2] * b[1])

RECURSIVE SeqSum(_)
SeqSum(s) ==
    IF s = <<>> THEN Zero ELSE RAdd(Head(s), SeqSum(Tail(s)))

(***************************************************************************)
(* Walkers (segments).  id stands for the identity of the Python object:   *)
(* bins and subgroups are sets of objects.                                 *)
(***************************************************************************)
Walker(id, w, p) == [id |-> id, weight |-> w, parent_id |-> p]

RECURSIVE SumW(_)
SumW(S) ==
    IF S = {} THEN Zero
    ELSE LET x == CHOOSE y \in S : TRUE IN RAdd(x.weight, SumW(S \ {x}))

\* the lightest walkers of S
Lightest(S) == {x \in S : \A y \in S : RLe(x.weight, y.weight)}

\* the orders sorted(S, key=attrgetter('weight')) can produce: ascending
\* weight, walkers of equal weight in the set's arbitrary iteration order
RECURSIVE SortedByWeight(_)
SortedByWeight(S) ==
    IF S = {} THEN {<<>>}
    ELSE UNION {{<<m>> \o r : r \in SortedByWeight(S \ {m})} : m \in Lightest(S)}

\* one of those orders, where the choice only names fresh walkers
RECURSIVE OneSorted(_)
OneSorted(S) ==
    IF S = {} THEN <<>>
    ELSE LET m == CHOOSE x \in Lightest(S) : TRUE IN <<m>> \o OneSorted(S \ {m})

(***************************************************************************)
(* Helpers inherited from the base class WEDriver.  Each returns the set   *)
(* of outcomes it can produce: the random choice of the merged walker's    *)
(* history and the order of equal-weight walkers are not determined.  An   *)
(* outcome is [bin, gs, nid, err]: the bin, the subgroups, the next fresh  *)
(* walker id and the exception raised ("none" when it returns; "hang"      *)
(* when a loop of the helper never ends).                                  *)
(***************************************************************************)
Outcome(b, g, n, e) == [bin |-> b, gs |-> g, nid |-> n, err |-> e]

\* _split_walker: m copies of the walker, each with weight / m
split_walker(seg, m, nid) ==
    {Walker(nid + k, RDivInt(seg.weight, m), seg.parent_id) : k \in 0..(m - 1)}

\* _merge_walkers: one walker carrying the summed weight; its history is
\* that of a member drawn with probability proportional to weight.  With a
\* summed weight of zero the draw indexes past the members (IndexError):
\* the result is then the empty set.
merge_walkers(segs, nid) ==
    {Walker(nid, SumW(segs), s.parent_id) :
        s \in {x \in segs : RLt(Zero, x.weight)}}

RECURSIVE SplitAll(_, _, _, _)
SplitAll(todo, S, unit, nid) ==
    IF todo = <<>> THEN [set |-> S, nid |-> nid]
    ELSE LET seg == Head(todo)
             m == RCeilDiv(seg.weight, unit)
         IN SplitAll(Tail(todo), (S \ {seg}) \cup split_walker(seg, m, nid),
                     unit, nid + m)

\* _split_by_weight: split every walker of the subgroup that is heavier
\* than the ideal weight into ceil(weight / ideal_weight) copies
split_by_weight(i, ideal_weight, nid) ==
    LET Over(s) == RLt(ideal_weight, s.weight)
        to_split == SelectSeq(OneSorted(i), Over)
    IN SplitAll(to_split, i, ideal_weight, nid)

RECURSIVE PrefixSum(_, _)
PrefixSum(s, k) ==
    IF k = 0 THEN Zero ELSE RAdd(PrefixSum(s, k - 1), s[k].weight)

\* _merge_by_weight: while the lightest walkers whose cumulative weight
\* stays within the ideal weight are two or more, merge them
RECURSIVE merge_by_weight(_, _, _)
merge_by_weight(i, ideal_weight, nid) ==
    UNION {
        LET n == Cardinality(i)
            k == Cardinality({j \in 1..n : RLe(PrefixSum(s, j), ideal_weight)})
            to_merge == {s[j] : j \in 1..k}
            rest == i \ to_merge
        IN IF k < 2 THEN {[set |-> i, nid |-> nid, err |-> "none"]}
           ELSE IF merge_walkers(to_merge, nid) = {}
                THEN {[set |-> rest, nid |-> nid, err |-> "IndexError"]}
                ELSE UNION {merge_by_weight(rest \cup {g}, ideal_weight, nid + 1) :
                                g \in merge_walkers(to_merge, nid)}
        : s \in SortedByWeight(i)}

\* _split_by_threshold: split every walker of the subgroup heavier than
\* largest_allowed_weight; the walker is removed from the bin first
\* (set.remove raises KeyError for a walker the bin no longer holds)
RECURSIVE SplitThr(_, _, _, _, _)
SplitThr(todo, bin, sub, largest, nid) ==
    IF todo = <<>> THEN [bin |-> bin, sub |-> sub, nid |-> nid, err |-> "none"]
    ELSE LET seg == Head(todo)
             m == RCeilDiv(seg.weight, largest)
             new == split_walker(seg, m, nid)
         IN IF seg \notin bin
            THEN [bin |-> bin, sub |-> sub, nid |-> nid, err |-> "KeyError"]
            ELSE SplitThr(Tail(todo), (bin \ {seg}) \cup new,
                          (sub \ {seg}) \cup new, largest, nid + m)

split_by_threshold(bin, sub, largest, nid) ==
    LET Over(s) == RLt(largest, s.weight)
    IN SplitThr(SelectSeq(OneSorted(sub), Over), bin, sub, largest, nid)

\* _merge_by_threshold: while two or more walkers of the subgroup are
\* lighter than smallest_allowed_weight, merge all of them into one
RECURSIVE merge_by_threshold(_, _, _, _)
merge_by_threshold(bin, sub, smallest, nid) ==
    LET to_merge == {s \in sub : RLt(s.weight, smallest)}
    IN IF Cardinality(to_merge) < 2
       THEN {[bin |-> bin, sub |-> sub, nid |-> nid, err |-> "none"]}
       ELSE IF merge_walkers(to_merge, nid) = {}
            THEN {[bin |-> bin \ to_merge, sub |-> sub \ to_merge,
                   nid |-> nid, err |-> "IndexError"]}
            ELSE UNION {merge_by_threshold((bin \ to_merge) \cup {g},
                                           (sub \ to_merge) \cup {g},
                                           smallest, nid + 1) :
                            g \in merge_walkers(to_merge, nid)}

\* the indices of the subgroups as sorted(subgroups, key=summed weight)
\* lists them: ascending summed weight, equal sums in list order (the sort
\* is stable)
SortedGroups(gs) ==
    LET n == Len(gs) IN
    CHOOSE p \in [1..n -> 1..n] :
        /\ \A a, b \in 1..n : a # b => p[a] # p[b]
        /\ \A a \in 1..(n - 1) :
              \/ RLt(SumW(gs[p[a]]), SumW(gs[p[a + 1]]))
              \/ /\ SumW(gs[p[a]]) = SumW(gs[p[a + 1]])
                 /\ p[a] < p[a + 1]

Reverse(s) == [k \in 1..Len(s) |-> s[Len(s) + 1 - k]]

\* the walkers sorted(i)[-1] can be: the heaviest of the subgroup
Heaviest(i) == {x \in i : \A y \in i : RLe(y.weight, x.weight)}

\* the pairs sorted(i)[:2] can be: the two lightest of the subgroup
TwoLightest(i) == {{s[1], s[2]} : s \in SortedByWeight(i)}

\* the split loop of _adjust_count: while the bin holds fewer than
\* target_count walkers, go through the subgroups and split the heaviest
\* walker of each in two, stopping when the count is reached
RECURSIVE AdjustSplit(_, _, _, _)
AdjustSplit(st, order, pos, target_count) ==
    IF Cardinality(st.bin) >= target_count THEN {st}
    ELSE IF order = <<>> THEN {[st EXCEPT !.err = "hang"]}
    ELSE IF st.gs[order[pos]] = {} THEN {[st EXCEPT !.err = "IndexError"]}
    ELSE UNION {
        LET new == split_walker(h, 2, st.nid)
            nxt == Outcome((st.bin \ {h}) \cup new,
                           [st.gs EXCEPT ![order[pos]] = (@ \ {h}) \cup new],
                           st.nid + 2, "none")
        IN IF h \notin st.bin THEN {[st EXCEPT !.err = "KeyError"]}
           ELSE AdjustSplit(nxt, order, (pos % Len(order)) + 1, target_count)
        : h \in Heaviest(st.gs[order[pos]])}

\* the merge loop of _adjust_count: while the bin holds more than
\* target_count walkers, reverse the list of subgroups, go through it and
\* merge the two lightest walkers of each subgroup that has two, stopping
\* when the count is reached.  It never ends when no subgroup has two.
RECURSIVE AdjustMerge(_, _, _, _)
AdjustMerge(st, order, pos, target_count) ==
    IF pos = 0
    THEN IF Cardinality(st.bin) <= target_count THEN {st}
         ELSE IF \A k \in 1..Len(order) : Cardinality(st.gs[order[k]]) < 2
              THEN {[st EXCEPT !.err = "hang"]}
              ELSE AdjustMerge(st, Reverse(order), 1, target_count)
    ELSE IF pos > Len(order) THEN AdjustMerge(st, order, 0, target_count)
    ELSE IF Cardinality(st.gs[order[pos]]) < 2
         THEN AdjustMerge(st, order, pos + 1, target_count)
    ELSE UNION {
        IF merge_walkers(pair, st.nid) = {}
        THEN {Outcome(st.bin \ pair,
                      [st.gs EXCEPT ![order[pos]] = @ \ pair],
                      st.nid, "IndexError")}
        ELSE UNION {
            LET nxt == Outcome((st.bin \ pair) \cup {g},
                               [st.gs EXCEPT ![order[pos]] = (@ \ pair) \cup {g}],
                               st.nid + 1, "none")
            IN IF Cardinality(nxt.bin) = target_count THEN {nxt}
               ELSE AdjustMerge(nxt, order, pos + 1, target_count)
            : g \in merge_walkers(pair, st.nid)}
        : pair \in TwoLightest(st.gs[order[pos]])}

\* _adjust_count(bin, subgroups, target_count).  With more subgroups than
\* the target count it works on one fresh set holding the bin's walkers,
\* and the caller's subgroups are left as they were; otherwise it works on
\* the caller's subgroups, ordered by summed weight.
adjust_count(bin, subgroups, target_count, nid) ==
    LET pooled == Len(subgroups) > target_count
        gs0 == IF pooled THEN <<bin>> ELSE subgroups
        order == IF pooled THEN <<1>> ELSE SortedGroups(subgroups)
        afterSplit == AdjustSplit(Outcome(bin, gs0, nid, "none"), order, 1, target_count)
        afterMerge == UNION {IF st.err = "none"
                             THEN AdjustMerge(st, order, 0, target_count)
                             ELSE {st} : st \in afterSplit}
    IN {IF pooled THEN [st EXCEPT !.gs = subgroups] ELSE st : st \in afterMerge}

(***************************************************************************)
(* The reweighter (src/odld/weer.py).                                      *)
(***************************************************************************)
\* the values a solver iterate can take in one coordinate: the multiples
\* of 1/WeightUnits in [0, 1] and one value above 1
IterGrid == {Norm(k, WeightUnits) : k \in 0..(WeightUnits + 1)}

Iterates(n) == [1..n -> IterGrid]

\* mutant of SimplexConstraint: the equality constraint is not handed to
\* the solver
SumUnconstrained(w) == TRUE

\* constraints = {'type': 'eq', 'fun': sum(weights) - 1}
SimplexConstraint(w) == SeqSum(w) = One

\* bounds = [(0, 1) for _ in range(len(initial_weights))]
Bounds(w) == \A k \in 1..Len(w) : RLe(Zero, w[k]) /\ RLe(w[k], One)

\* the points that satisfy the constraints and bounds handed to the solver
Feasible ==
    [n \in 1..MaxWalkers |-> {y \in Iterates(n) : SimplexConstraint(y) /\ Bounds(y)}]

\* minimize(..., method='SLSQP', constraints=constraints, bounds=bounds):
\* the results the solver can report.  A result with success set holds a
\* point of the same length as the start vector that satisfies the
\* constraints and bounds handed to the solver; without success the point
\* is where the solver stopped: the start vector, or the upper corner of
\* the box.
minimize(initial_weights) ==
    LET n == Len(initial_weights) IN
    {[success |-> TRUE, x |-> x] : x \in Feasible[n]}
    \cup
    {[success |-> FALSE, x |-> x] :
        x \in {initial_weights, [k \in 1..n |-> One]}}

\* mutant of optimize_weights: result.x is returned without looking at
\* result.success
optimize_weights_unchecked(result) ==
    [raised |-> "none", value |-> result.x]

\* optimize_weights after the solver reported `result`: the returned
\* vector, or the exception raised
optimize_weights(result) ==
    IF result.success
    THEN [raised |-> "none", value |-> result.x]
    ELSE [raised |-> "OptimizationError", value |-> <<>>]

(***************************************************************************)
(* The WEER object (src/odld/weer.py): its constructor and its histograms. *)
(* A numpy array is [shape, flat]: the length of every axis and the        *)
(* entries in row-major order; floats are the rationals above, with        *)
(* <<1, 0>> for inf and <<0, 0>> for nan.                                  *)
(***************************************************************************)
\* the longest sample array handed to a histogram
MaxSamples == 2
\* samples and progress coordinates are the integers 0..MaxCoord
MaxCoord == 2
\* the bins argument of the histograms (100 when kl_divergence is called
\* without it)
HistBins == 2
\* the longest axis of a pcoords array
MaxAxis == 2

NaN == <<0, 0>>

RSub(a, b) == Norm(a[1] * b[2] - b[1] * a[2], a[2] * b[2])

RMul(a, b) == Norm(a[1] * b[1], a[2] * b[2])

\* float division as numpy does it: x / 0 is inf, 0 / 0 is nan
RDiv(a, b) ==
    IF a = NaN \/ b = NaN THEN NaN
    ELSE IF b[1] = 0 THEN (IF a[1] = 0 THEN NaN ELSE <<1, 0>>)
    ELSE Norm(a[1] * b[2], a[2] * b[1])

RFloor(a) == a[1] \div a[2]

Array(sh, f) == [shape |-> sh, flat |-> f]

RECURSIVE Size(_)
Size(sh) == IF sh = <<>> THEN 1 ELSE Head(sh) * Size(Tail(sh))

\* the arrays a caller can pass as pcoords: walker, walker x dimension, or
\* walker x frame x dimension, every axis of 1..MaxAxis entries.  The
\* entries of an array are pairwise different coordinates, so that every
\* entry of a slice tells where it was taken from.
Shapes == UNION {[1..n -> 1..MaxAxis] : n \in 1..3}
PcoordArrays == {Array(sh, [k \in 1..Size(sh) |-> k]) : sh \in Shapes}

\* pcoords[:, 0]: entry 0 along the second axis for every entry of the
\* first axis, the axes after the second kept whole
FirstOfSecondAxis(pcoords) ==
    LET sh == pcoords.shape
        rest == Size(Tail(Tail(sh)))
    IN Array(<<sh[1]>> \o Tail(Tail(sh)),
             [k \in 1..(sh[1] * rest) |->
                 pcoords.flat[((k - 1) \div rest) * sh[2] * rest
                              + ((k - 1) % rest) + 1]])

\* lines 27-33: what __init__ stores as self.pcoords
WEER_init(pcoords) ==
    IF Len(pcoords.shape) = 1 THEN pcoords
    ELSE FirstOfSecondAxis(pcoords)

\* the sample arrays handed to the histograms
Samples == UNION {[1..n -> 0..MaxCoord] : n \in 0..MaxSamples}

SeqMin(s) == CHOOSE x \in {s[k] : k \in 1..Len(s)} : \A k \in 1..Len(s) : x <= s[k]
SeqMax(s) == CHOOSE x \in {s[k] : k \in 1..Len(s)} : \A k \in 1..Len(s) : x >= s[k]

\* numpy.histogram with an integer bins and no range: the outer edges are
\* the least and the greatest sample, (0, 1) for an empty array, and are
\* moved apart by a half on each side when they are equal
outer_edges(data) ==
    IF Len(data) = 0 THEN <<Zero, One>>
    ELSE IF SeqMin(data) = SeqMax(data)
         THEN <<Norm(2 * SeqMin(data) - 1, 2), Norm(2 * SeqMax(data) + 1, 2)>>
         ELSE <<Norm(SeqMin(data), 1), Norm(SeqMax(data), 1)>>

\* numpy.linspace(first, last, bins + 1)
bin_edges(data, bins) ==
    LET e == outer_edges(data)
        width == RDivInt(RSub(e[2], e[1]), bins)
    IN [j \in 1..(bins + 1) |-> RAdd(e[1], RMul(<<j - 1, 1>>, width))]

\* the bin a sample falls into; the last bin includes the last edge
bin_of(x, data, bins) ==
    LET e == outer_edges(data)
        pos == RDiv(RMul(RSub(<<x, 1>>, e[1]), <<bins, 1>>), RSub(e[2], e[1]))
    IN IF <<x, 1>> = e[2] THEN bins ELSE RFloor(pos) + 1

\* the weights argument of a histogram: None, or an array
NoWeights == [given |-> FALSE, w |-> <<>>]
Given(w) == [given |-> TRUE, w |-> w]

NoHist == [raised |-> "none", hist |-> <<>>, bin_edges |-> <<>>]

\* lines 38-50: bin_data, that is numpy.histogram(data, bins, density=True,
\* weights).  A weights array of another length than data is an error; an
\* empty data array is not: every count is 0 and the density is 0 / 0.
\* bin_edges is what numpy computed; bin_data returns hist alone.
bin_data(data, bins, weights) ==
    IF weights.given /\ Len(weights.w) # Len(data)
    THEN [raised |-> "InvalidInputError", hist |-> <<>>, bin_edges |-> <<>>]
    ELSE LET wt(k) == IF weights.given THEN weights.w[k] ELSE One
             n == [j \in 1..bins |->
                      SeqSum([k \in 1..Len(data) |->
                                 IF bin_of(data[k], data, bins) = j
                                 THEN wt(k) ELSE Zero])]
             edges == bin_edges(data, bins)
             db == RSub(edges[2], edges[1])
         IN [raised |-> "none",
             hist |-> [j \in 1..bins |-> RDiv(RDiv(n[j], db), SeqSum(n))],
             bin_edges |-> edges]

\* lines 52-73: kl_divergence.  The two histograms are built one after the
\* other, each from its own sample array; epsilon is added to every bin
\* and scipy's entropy of the pair is returned, which is nan as soon as an
\* entry is nan and a finite number otherwise.
kl_divergence(weights, true_distribution, simulated_distribution, bins) ==
    LET th == bin_data(true_distribution, bins, NoWeights)
        sh == IF th.raised = "none"
              THEN bin_data(simulated_distribution, bins, Given(weights))
              ELSE NoHist
        raised == IF th.raised # "none" THEN th.raised ELSE sh.raised
    IN [raised |-> raised, true_hist |-> th, simulated_hist |-> sh,
        value |-> IF raised # "none" THEN "none"
                  ELSE IF \E j \in 1..bins : NaN \in {th.hist[j], sh.hist[j]}
                       THEN "nan" ELSE "finite"]

VARIABLES
    w_pc,                      \* what has been called on the WEER object
    w_pcoords,                 \* the pcoords argument of __init__
    self_pcoords,              \* self.pcoords
    data,                      \* the arguments of a call of bin_data
    data_weights,
    hist,                      \* and what numpy.histogram made of them
    true_distribution,         \* the arguments of a call of kl_divergence
    simulated_distribution,
    kl_weights,
    true_hist,                 \* its two histograms
    simulated_hist,
    divergence                 \* and what it returned

weer_vars == <<w_pc, w_pcoords, self_pcoords, data, data_weights, hist,
               true_distribution, simulated_distribution, kl_weights,
               true_hist, simulated_hist, divergence>>

\* the weight vectors the solver hands to its objective function
KLWeights == UNION {Feasible[n] : n \in 1..MaxWalkers}

\* no WEER object yet
WEERNew ==
    /\ w_pc = "new"
    /\ w_pcoords = Array(<<0>>, <<>>)
    /\ self_pcoords = Array(<<0>>, <<>>)
    /\ data = <<>>
    /\ data_weights = NoWeights
    /\ hist = NoHist
    /\ true_distribution = <<>>
    /\ simulated_distribution = <<>>
    /\ kl_weights = <<>>
    /\ true_hist = NoHist
    /\ simulated_hist = NoHist
    /\ divergence = "none"

(***************************************************************************)
(* State of one call of WEERDriver._run_we.                                *)
(***************************************************************************)
VARIABLES
    pc,                        \* position in _run_we
    ibin,                      \* loop index over next_iter_binning
    next_iter_binning,         \* bin -> set of walkers
    bin_target_counts,         \* bin -> target count
    do_adjust_counts,
    do_thresholds,
    smallest_allowed_weight,
    largest_allowed_weight,
    subgroups,                 \* the subgroups of the bin being processed
    segments,                  \* the bin's walkers sorted by weight
    weights,                   \* their weights, then the reweighted ones
    ideal_weight,
    total_number_of_subgroups,
    total_number_of_particles,
    nid,                       \* next fresh walker id
    err,                       \* the exception that ended _run_we
    warned,                    \* bin -> walkers a threshold warning named
    result,                    \* what the solver last reported
    bins0,                     \* history: the bins when _run_we started
    pre_bin,                   \* history: the bin before its reweight step
    mass,                      \* history: bin -> weight after reweighting
    adjust_runs,               \* history: bin -> calls of _adjust_count
    nsub,                      \* history: bin -> subgroups it was given
    processed,                 \* history: bins the loop has finished
    ideal_runs,                \* history: bin -> evaluations of line 56
    curr_segments              \* current_iter_segments sorted by weight

vars == <<pc, ibin, next_iter_binning, bin_target_counts, do_adjust_counts,
          do_thresholds, smallest_allowed_weight, largest_allowed_weight,
          subgroups, segments, weights, ideal_weight,
          total_number_of_subgroups, total_number_of_particles, nid, err,
          warned, result, bins0, pre_bin, mass, adjust_runs, nsub,
          processed, ideal_runs, curr_segments, w_pc, w_pcoords,
          self_pcoords, data, data_weights, hist, true_distribution,
          simulated_distribution, kl_weights, true_hist, simulated_hist,
          divergence>>

config == <<bin_target_counts, do_adjust_counts, do_thresholds,
            smallest_allowed_weight, largest_allowed_weight, bins0>>

NBins == Cardinality(Bins)

NoResult == [success |-> FALSE, x |-> <<>>]

\* the (smallest_allowed_weight, largest_allowed_weight) settings tried
ThresholdPairs ==
    {<<Norm(1, 4), Norm(1, 2)>>, <<Norm(1, 2), Norm(1, 2)>>,
     <<Norm(1, 2), Norm(1, 4)>>}

\* with do_thresholds off the two bounds are never read
DefaultThresholds == <<Zero, One>>

\* the ensembles _run_we can start from: 1..MaxWalkers walkers, each in a
\* bin and with a positive weight, the weights summing to 1.  Walker k is
\* <<bin, units>>; listing them in ascending order drops the relabellings.
Layouts ==
    LET Sum(l) == SeqSum([k \in 1..Len(l) |-> <<l[k][2], 1>>])[1]
        Key(e) == e[1] * (WeightUnits + 1) + e[2]
    IN {l \in UNION {[1..n -> Bins \X (1..WeightUnits)] : n \in 1..MaxWalkers} :
           /\ Sum(l) = WeightUnits
           /\ \A k \in 1..(Len(l) - 1) : Key(l[k]) <= Key(l[k + 1])}

BinOf(l, b) ==
    {Walker(k, Norm(l[k][2], WeightUnits), k) : k \in {j \in 1..Len(l) : l[j][1] = b}}

Init ==
    /\ pc = "start"
    /\ ibin = 1
    /\ \E l \in Layouts :
          /\ next_iter_binning = [b \in Bins |-> BinOf(l, b)]
          /\ nid = Len(l) + 1
    /\ bins0 = next_iter_binning
    /\ bin_target_counts \in [Bins -> 0..MaxTarget]
    /\ do_adjust_counts \in BOOLEAN
    /\ do_thresholds \in BOOLEAN
    /\ \E t \in IF do_thresholds THEN ThresholdPairs ELSE {DefaultThresholds} :
          /\ smallest_allowed_weight = t[1]
          /\ largest_allowed_weight = t[2]
    /\ subgroups = <<>>
    /\ segments = <<>>
    /\ weights = <<>>
    /\ ideal_weight = Zero
    /\ total_number_of_subgroups = 0
    /\ total_number_of_particles = 0
    /\ err = "none"
    /\ warned = [b \in Bins |-> {}]
    /\ result = NoResult
    /\ pre_bin = {}
    /\ mass = [b \in Bins |-> Zero]
    /\ adjust_runs = [b \in Bins |-> 0]
    /\ nsub = [b \in Bins |-> 0]
    /\ processed = {}
    /\ ideal_runs = [b \in Bins |-> 0]
    /\ curr_segments = <<>>
    /\ WEERNew

(***************************************************************************)
(* WEERDriver._run_we (src/odld/weer_driver.py), one action per step.      *)
(***************************************************************************)
\* what subgroup_function can return for a bin: a partition of the bin's
\* walkers into non-empty subgroups (listed by their lowest walker id), or
\* no subgroup at all
SubgroupLists(S) ==
    LET n == Cardinality(S)
        Block(f, j) == {w \in S : f[w] = j}
        Low(f, j) == CHOOSE m \in {w.id : w \in Block(f, j)} :
                        \A w \in Block(f, j) : m <= w.id
        Used(f) == {f[w] : w \in S}
        Canon(f) ==
            /\ \E k \in 1..n : Used(f) = 1..k
            /\ \A j \in Used(f) : j + 1 \in Used(f) => Low(f, j) < Low(f, j + 1)
    IN {[j \in 1..Cardinality(Used(f)) |-> Block(f, j)] :
            f \in {g \in [S -> 1..n] : Canon(g)}}
       \cup {<<>>}

\* _check_pre of the base class: a bin that holds walkers and has a target
\* count of zero is rejected
check_pre(binning, target_counts) ==
    IF \E b \in Bins : target_counts[b] = 0 /\ binning[b] # {}
    THEN "ConfigurationError"
    ELSE "none"

\* _check_post of the base class: a walker of weight zero is rejected
check_post(binning) ==
    IF \E b \in Bins : \E w \in binning[b] : w.weight = Zero
    THEN "ConsistencyError"
    ELSE "none"

\* line 22: self._recycle_walkers().  No target state is configured, so no
\* walker is recycled.
RecycleWalkers ==
    /\ pc = "start"
    /\ pc' = "recycled"
    /\ UNCHANGED <<ibin, next_iter_binning, subgroups, segments, weights,
                   ideal_weight, total_number_of_subgroups,
                   total_number_of_particles, nid, err, warned, result,
                   pre_bin, mass, adjust_runs, processed, nsub, config,
                   ideal_runs, curr_segments, weer_vars>>

\* mutant of CheckPre: the loop starts without the call of _check_pre
CheckPreSkipped ==
    /\ pc = "recycled"
    /\ pc' = "loop"
    /\ total_number_of_subgroups' = 0
    /\ total_number_of_particles' = 0
    /\ ibin' = 1
    /\ UNCHANGED <<next_iter_binning, subgroups, segments, weights,
                   ideal_weight, nid, err, warned, result, pre_bin, mass,
                   adjust_runs, processed, nsub, config,
                   ideal_runs, curr_segments, weer_vars>>

\* lines 24-30: self._check_pre(), then the two totals are zeroed and the
\* loop starts
CheckPre ==
    /\ pc = "recycled"
    /\ LET e == check_pre(next_iter_binning, bin_target_counts) IN
          /\ err' = e
          /\ pc' = IF e = "none" THEN "loop" ELSE "error"
    /\ total_number_of_subgroups' = 0
    /\ total_number_of_particles' = 0
    /\ ibin' = 1
    /\ UNCHANGED <<next_iter_binning, subgroups, segments, weights,
                   ideal_weight, nid, warned, result, pre_bin, mass,
                   adjust_runs, processed, nsub, config,
                   ideal_runs, curr_segments, weer_vars>>

\* lines 31-33: an empty bin is skipped
SkipBin ==
    /\ pc = "loop"
    /\ ibin <= NBins
    /\ next_iter_binning[ibin] = {}
    /\ ibin' = ibin + 1
    /\ UNCHANGED <<pc, next_iter_binning, subgroups, segments, weights,
                   ideal_weight, total_number_of_subgroups,
                   total_number_of_particles, nid, err, warned, result,
                   pre_bin, mass, adjust_runs, processed, nsub, config,
                   ideal_runs, curr_segments, weer_vars>>

\* lines 31-38: a bin with walkers is handed to the subgroup function
EnterBin ==
    /\ pc = "loop"
    /\ ibin <= NBins
    /\ next_iter_binning[ibin] # {}
    /\ subgroups' \in SubgroupLists(next_iter_binning[ibin])
    /\ total_number_of_subgroups' = total_number_of_subgroups + Len(subgroups')
    /\ pre_bin' = next_iter_binning[ibin]
    /\ nsub' = [nsub EXCEPT ![ibin] = Len(subgroups')]
    /\ pc' = "reweight"
    /\ UNCHANGED <<ibin, next_iter_binning, segments, weights, ideal_weight,
                   total_number_of_particles, nid, err, warned, result, mass,
                   adjust_runs, processed, config,
                   ideal_runs, curr_segments, weer_vars>>

\* the walkers of S with the weight of segs[k] set to x[k]
WriteBack(S, segs, x) ==
    {IF \E k \in 1..Len(segs) : segs[k].id = w.id
     THEN [w EXCEPT !.weight = x[CHOOSE k \in 1..Len(segs) : segs[k].id = w.id]]
     ELSE w : w \in S}

\* mutant of ReweightStep: the solver's point is written to the walkers
\* before result.success is looked at
ReweightStepInPlace(bin, segs, w0, r) ==
    LET out == optimize_weights(r) IN
    [raised |-> out.raised, bin |-> WriteBack(bin, segs, r.x),
     weights |-> IF out.raised = "none" THEN out.value ELSE w0]

\* lines 50-53 for one solver result: the reweighter's answer, and the bin
\* and weight vector it leaves.  The exception of optimize_weights leaves
\* line 52 before anything is written.
ReweightStep(bin, segs, w0, r) ==
    LET out == optimize_weights(r) IN
    IF out.raised = "none"
    THEN [raised |-> "none", bin |-> WriteBack(bin, segs, out.value),
          weights |-> out.value]
    ELSE [raised |-> out.raised, bin |-> bin, weights |-> w0]

\* line 45: self.current_iter_segments, the walkers of the iteration that
\* just ran.  Each walker _run_we starts from continues one of them and
\* carries its weight and id, so the start bins stand for them.
current_iter_segments == UNION {bins0[b] : b \in Bins}

\* lines 39-53: the bin's walkers sorted by weight, their weights, the
\* current-iteration walkers sorted by weight (their pcoords are the
\* candidate samples), the reweighter run on them, and the returned
\* weights set on the bin's walkers.
\* The histograms inside the reweighter can fail on the sample arrays
\* (InvalidInputError); the solver can fail to converge.
Reweight ==
    /\ pc = "reweight"
    /\ curr_segments' \in SortedByWeight(current_iter_segments)
    /\ \E segs \in SortedByWeight(next_iter_binning[ibin]) :
       \E kind \in {"histogram", "solver"} :
          LET w0 == [k \in 1..Len(segs) |-> segs[k].weight] IN
          IF kind = "histogram"
          THEN /\ err' = "InvalidInputError"
               /\ pc' = "error"
               /\ segments' = segs
               /\ weights' = w0
               /\ UNCHANGED <<next_iter_binning, subgroups, result, mass>>
          ELSE \E r \in minimize(w0) :
                  LET step == ReweightStep(next_iter_binning[ibin], segs, w0, r) IN
                  /\ result' = r
                  /\ segments' = segs
                  /\ weights' = step.weights
                  /\ next_iter_binning' =
                        [next_iter_binning EXCEPT ![ibin] = step.bin]
                  /\ IF step.raised = "none"
                     THEN /\ subgroups' =
                                [k \in 1..Len(subgroups) |->
                                    WriteBack(subgroups[k], segs, step.weights)]
                          /\ mass' = [mass EXCEPT ![ibin] = SumW(step.bin)]
                          /\ err' = err
                          /\ pc' = "ideal"
                     ELSE /\ err' = step.raised
                          /\ pc' = "error"
                          /\ UNCHANGED <<subgroups, mass>>
    /\ UNCHANGED <<ibin, ideal_weight, total_number_of_subgroups,
                   total_number_of_particles, nid, warned, pre_bin,
                   adjust_runs, processed, nsub, config, ideal_runs,
                   weer_vars>>

\* line 56: weights.sum() / target_count (numpy yields inf for a zero
\* target count)
IdealWeight(w, target_count) ==
    IF target_count = 0 THEN <<1, 0>> ELSE RDivInt(SeqSum(w), target_count)

\* mutant of IdealAndClear: the ideal weight is taken from the weights the
\* bin's walkers had before the reweight step
IdealFromOldWeights ==
    /\ pc = "ideal"
    /\ ideal_weight' = RDivInt(SumW(pre_bin), bin_target_counts[ibin])
    /\ ideal_runs' = [ideal_runs EXCEPT ![ibin] = @ + 1]
    /\ next_iter_binning' = [next_iter_binning EXCEPT ![ibin] = {}]
    /\ segments' = <<>>
    /\ weights' = <<>>
    /\ curr_segments' = <<>>
    /\ pc' = "resample"
    /\ UNCHANGED <<ibin, subgroups, total_number_of_subgroups,
                   total_number_of_particles, nid, err, warned, result,
                   pre_bin, mass, adjust_runs, processed, nsub, config,
                   weer_vars>>

\* lines 55-57: the ideal weight is computed and the bin is cleared
IdealAndClear ==
    /\ pc = "ideal"
    /\ ideal_weight' = IdealWeight(weights, bin_target_counts[ibin])
    /\ ideal_runs' = [ideal_runs EXCEPT ![ibin] = @ + 1]
    /\ next_iter_binning' = [next_iter_binning EXCEPT ![ibin] = {}]
    /\ segments' = <<>>
    /\ weights' = <<>>
    /\ curr_segments' = <<>>
    /\ pc' = "resample"
    /\ UNCHANGED <<ibin, subgroups, total_number_of_subgroups,
                   total_number_of_particles, nid, err, warned, result,
                   pre_bin, mass, adjust_runs, processed, nsub, config,
                   weer_vars>>

\* mutant of MergeSubgroups: the merged walker is added to its subgroup
\* without the i.clear() of line 70
RECURSIVE MergeSubgroupsUncleared(_, _)
MergeSubgroupsUncleared(st, k) ==
    IF k > Len(st.gs) THEN {st}
    ELSE LET i == st.gs[k] IN
         IF Cardinality(i) > 1
         THEN UNION {MergeSubgroupsUncleared(
                         Outcome(st.bin \cup i \cup {g},
                                 [st.gs EXCEPT ![k] = i \cup {g}],
                                 st.nid + 1, "none"), k + 1) :
                         g \in merge_walkers(i, st.nid)}
         ELSE MergeSubgroupsUncleared(
                  Outcome(st.bin \cup i, st.gs, st.nid, "none"), k + 1)

\* lines 61-72: every subgroup with more than one walker is merged into
\* one walker, and the subgroup is added to the bin
RECURSIVE MergeSubgroups(_, _)
MergeSubgroups(st, k) ==
    IF k > Len(st.gs) THEN {st}
    ELSE LET i == st.gs[k] IN
         IF Cardinality(i) > 1
         THEN IF merge_walkers(i, st.nid) = {}
              THEN {[st EXCEPT !.err = "IndexError"]}
              ELSE UNION {MergeSubgroups(Outcome(st.bin \cup {g},
                                                 [st.gs EXCEPT ![k] = {g}],
                                                 st.nid + 1, "none"), k + 1) :
                              g \in merge_walkers(i, st.nid)}
         ELSE MergeSubgroups(Outcome(st.bin \cup i, st.gs, st.nid, "none"), k + 1)

\* lines 78-82: every subgroup is split and merged by weight, and added to
\* the bin
RECURSIVE SplitMergeSubgroups(_, _, _)
SplitMergeSubgroups(st, k, ideal) ==
    IF k > Len(st.gs) THEN {st}
    ELSE LET sp == split_by_weight(st.gs[k], ideal, st.nid) IN
         UNION {IF m.err # "none"
                THEN {Outcome(st.bin, [st.gs EXCEPT ![k] = m.set], m.nid, m.err)}
                ELSE SplitMergeSubgroups(
                         Outcome(st.bin \cup m.set, [st.gs EXCEPT ![k] = m.set],
                                 m.nid, "none"), k + 1, ideal)
                : m \in merge_by_weight(sp.set, ideal, sp.nid)}

\* lines 60-72 and 77-82: the subgroup phase that refills the cleared bin
ResamplePhase(bin, gs, target_count, ideal, n) ==
    IF Len(gs) >= target_count
    THEN MergeSubgroups(Outcome(bin, gs, n, "none"), 1)
    ELSE SplitMergeSubgroups(Outcome(bin, gs, n, "none"), 1, ideal)

\* the step an outcome of a helper leads to
AfterOutcome(st, nextpc) ==
    IF st.err = "none" THEN nextpc
    ELSE IF st.err = "hang" THEN "hang" ELSE "error"

Resample ==
    /\ pc = "resample"
    /\ \E st \in ResamplePhase(next_iter_binning[ibin], subgroups,
                               bin_target_counts[ibin], ideal_weight, nid) :
          /\ next_iter_binning' = [next_iter_binning EXCEPT ![ibin] = st.bin]
          /\ subgroups' = st.gs
          /\ nid' = st.nid
          /\ err' = st.err
          /\ pc' = AfterOutcome(st, "adjust")
    /\ UNCHANGED <<ibin, segments, weights, ideal_weight,
                   total_number_of_subgroups, total_number_of_particles,
                   warned, result, pre_bin, mass, adjust_runs, processed,
                   nsub, config,
                   ideal_runs, curr_segments, weer_vars>>

\* mutant of RunsAdjust: _adjust_count is called whenever the number of
\* subgroups differs from target_count
RunsAdjustWheneverOff(S, target_count, adjust) ==
    S # target_count

\* mutant of RunsAdjust: do_adjust_counts also guards the call at line 75
RunsAdjustIfConfigured(S, target_count, adjust) ==
    S # target_count /\ adjust

\* lines 74 and 77/83: whether _adjust_count is called for S subgroups
RunsAdjust(S, target_count, adjust) ==
    \/ S > target_count
    \/ S < target_count /\ adjust

\* lines 74-75 and 83-85: the count adjustment, when it is called
AdjustCount ==
    /\ pc = "adjust"
    /\ IF RunsAdjust(Len(subgroups), bin_target_counts[ibin], do_adjust_counts)
       THEN \E st \in adjust_count(next_iter_binning[ibin], subgroups,
                                   bin_target_counts[ibin], nid) :
               /\ next_iter_binning' = [next_iter_binning EXCEPT ![ibin] = st.bin]
               /\ subgroups' = st.gs
               /\ nid' = st.nid
               /\ err' = st.err
               /\ pc' = AfterOutcome(st, "threshold")
               /\ adjust_runs' = [adjust_runs EXCEPT ![ibin] = @ + 1]
       ELSE /\ pc' = "threshold"
            /\ UNCHANGED <<next_iter_binning, subgroups, nid, err, adjust_runs>>
    /\ UNCHANGED <<ibin, segments, weights, ideal_weight,
                   total_number_of_subgroups, total_number_of_particles,
                   warned, result, pre_bin, mass, processed, nsub, config,
                   ideal_runs, curr_segments, weer_vars>>

\* lines 87-89: every subgroup is split and merged by threshold
RECURSIVE ThresholdPass(_, _, _, _)
ThresholdPass(st, k, smallest, largest) ==
    IF k > Len(st.gs) THEN {st}
    ELSE LET sp == split_by_threshold(st.bin, st.gs[k], largest, st.nid) IN
         IF sp.err # "none"
         THEN {Outcome(sp.bin, [st.gs EXCEPT ![k] = sp.sub], sp.nid, sp.err)}
         ELSE UNION {IF m.err # "none"
                     THEN {Outcome(m.bin, [st.gs EXCEPT ![k] = m.sub], m.nid, m.err)}
                     ELSE ThresholdPass(
                              Outcome(m.bin, [st.gs EXCEPT ![k] = m.sub], m.nid, "none"),
                              k + 1, smallest, largest)
                     : m \in merge_by_threshold(sp.bin, sp.sub, smallest, sp.nid)}

\* mutant of OutOfBounds: only the upper bound is compared
OutOfBoundsAbove(iseg, smallest, largest) ==
    RLt(largest, iseg.weight)

\* line 91: the walker is outside the allowed weights
OutOfBounds(iseg, smallest, largest) ==
    RLt(largest, iseg.weight) \/ RLt(iseg.weight, smallest)

\* lines 90-94: the walkers of the bin a warning is logged for
Warnings(bin, smallest, largest) ==
    {iseg \in bin : OutOfBounds(iseg, smallest, largest)}

\* lines 86-94: threshold enforcement, when do_thresholds is set
Thresholds ==
    /\ pc = "threshold"
    /\ IF do_thresholds
       THEN \E st \in ThresholdPass(Outcome(next_iter_binning[ibin], subgroups,
                                            nid, "none"), 1,
                                    smallest_allowed_weight,
                                    largest_allowed_weight) :
               /\ next_iter_binning' = [next_iter_binning EXCEPT ![ibin] = st.bin]
               /\ subgroups' = st.gs
               /\ nid' = st.nid
               /\ err' = st.err
               /\ pc' = AfterOutcome(st, "count")
               /\ warned' = IF st.err = "none"
                            THEN [warned EXCEPT ![ibin] =
                                     Warnings(st.bin, smallest_allowed_weight,
                                              largest_allowed_weight)]
                            ELSE warned
       ELSE /\ pc' = "count"
            /\ UNCHANGED <<next_iter_binning, subgroups, nid, err, warned>>
    /\ UNCHANGED <<ibin, segments, weights, ideal_weight,
                   total_number_of_subgroups, total_number_of_particles,
                   result, pre_bin, mass, adjust_runs, processed, nsub, config,
                   ideal_runs, curr_segments, weer_vars>>

\* line 95: the bin's walkers are counted and the loop goes on
FinishBin ==
    /\ pc = "count"
    /\ total_number_of_particles' =
          total_number_of_particles + Cardinality(next_iter_binning[ibin])
    /\ processed' = processed \cup {ibin}
    /\ ibin' = ibin + 1
    /\ subgroups' = <<>>
    /\ pc' = "loop"
    /\ UNCHANGED <<next_iter_binning, segments, weights, ideal_weight,
                   total_number_of_subgroups, nid, err, warned, result,
                   pre_bin, mass, adjust_runs, nsub, config,
                   ideal_runs, curr_segments, weer_vars>>

\* mutant of CheckPost: the post-check is run when the loop stands at the
\* last bin
CheckPostEarly ==
    /\ pc = "loop"
    /\ ibin >= NBins
    /\ LET e == check_post(next_iter_binning) IN
          /\ err' = e
          /\ pc' = IF e = "none" THEN "done" ELSE "error"
    /\ UNCHANGED <<ibin, next_iter_binning, subgroups, segments, weights,
                   ideal_weight, total_number_of_subgroups,
                   total_number_of_particles, nid, warned, result, pre_bin,
                   mass, adjust_runs, processed, nsub, config,
                   ideal_runs, curr_segments, weer_vars>>

\* lines 96-98: after the last bin, self._check_post()
CheckPost ==
    /\ pc = "loop"
    /\ ibin > NBins
    /\ LET e == check_post(next_iter_binning) IN
          /\ err' = e
          /\ pc' = IF e = "none" THEN "done" ELSE "error"
    /\ UNCHANGED <<ibin, next_iter_binning, subgroups, segments, weights,
                   ideal_weight, total_number_of_subgroups,
                   total_number_of_particles, nid, warned, result, pre_bin,
                   mass, adjust_runs, processed, nsub, config,
                   ideal_runs, curr_segments, weer_vars>>

Next ==
    \/ RecycleWalkers
    \/ CheckPre
    \/ SkipBin
    \/ EnterBin
    \/ Reweight
    \/ IdealAndClear
    \/ Resample
    \/ AdjustCount
    \/ Thresholds
    \/ FinishBin
    \/ CheckPost

Spec == Init /\ [][Next]_vars

(***************************************************************************)
(* The WEER object on its own: a caller constructs it on a pcoords array   *)
(* and calls bin_data or kl_divergence on sample arrays.                   *)
(***************************************************************************)
driver_vars == <<pc, ibin, next_iter_binning, subgroups, segments, weights,
                 ideal_weight, total_number_of_subgroups,
                 total_number_of_particles, nid, err, warned, result,
                 pre_bin, mass, adjust_runs, processed, nsub, config,
                 ideal_runs, curr_segments>>

\* no _run_we is under way
NoRun ==
    /\ pc = "none"
    /\ ibin = 1
    /\ next_iter_binning = [b \in Bins |-> {}]
    /\ bins0 = next_iter_binning
    /\ bin_target_counts = [b \in Bins |-> 1]
    /\ do_adjust_counts = FALSE
    /\ do_thresholds = FALSE
    /\ smallest_allowed_weight = DefaultThresholds[1]
    /\ largest_allowed_weight = DefaultThresholds[2]
    /\ subgroups = <<>>
    /\ segments = <<>>
    /\ weights = <<>>
    /\ ideal_weight = Zero
    /\ total_number_of_subgroups = 0
    /\ total_number_of_particles = 0
    /\ nid = 1
    /\ err = "none"
    /\ warned = [b \in Bins |-> {}]
    /\ result = NoResult
    /\ pre_bin = {}
    /\ mass = [b \in Bins |-> Zero]
    /\ adjust_runs = [b \in Bins |-> 0]
    /\ nsub = [b \in Bins |-> 0]
    /\ processed = {}
    /\ ideal_runs = [b \in Bins |-> 0]
    /\ curr_segments = <<>>

InitWEER == NoRun /\ WEERNew

\* lines 11-36: WEER(pcoords, weights, true_dist)
Construct ==
    /\ w_pc = "new"
    /\ \E p \in PcoordArrays :
          /\ w_pcoords' = p
          /\ self_pcoords' = WEER_init(p)
    /\ w_pc' = "constructed"
    /\ UNCHANGED <<data, data_weights, hist, true_distribution,
                   simulated_distribution, kl_weights, true_hist,
                   simulated_hist, divergence, driver_vars>>

\* lines 38-50: a call of bin_data
BinData ==
    /\ w_pc = "constructed"
    /\ \E d \in Samples : \E w \in {NoWeights} \cup {Given(x) : x \in KLWeights} :
          /\ data' = d
          /\ data_weights' = w
          /\ hist' = bin_data(d, HistBins, w)
    /\ w_pc' = "binned"
    /\ UNCHANGED <<w_pcoords, self_pcoords, true_distribution,
                   simulated_distribution, kl_weights, true_hist,
                   simulated_hist, divergence, driver_vars>>

\* lines 52-73: a call of kl_divergence
KLDivergence ==
    /\ w_pc = "constructed"
    /\ \E t \in Samples : \E s \in Samples : \E w \in KLWeights :
          LET kl == kl_divergence(w, t, s, HistBins) IN
          /\ true_distribution' = t
          /\ simulated_distribution' = s
          /\ kl_weights' = w
          /\ true_hist' = kl.true_hist
          /\ simulated_hist' = kl.simulated_hist
          /\ divergence' = kl.value
    /\ w_pc' = "scored"
    /\ UNCHANGED <<w_pcoords, self_pcoords, data, data_weights, hist,
                   driver_vars>>

NextWEER ==
    \/ Construct
    \/ BinData
    \/ KLDivergence

SpecWEER == InitWEER /\ [][NextWEER]_vars

(***************************************************************************)
(* Properties.                                                             *)
(***************************************************************************)
Count(b) == Cardinality(next_iter_binning[b])

EnsembleWeight(binning) == SumW(UNION {binning[b] : b \in Bins})

C2_BinWeightConserved ==
    \A b \in processed : SumW(next_iter_binning[b]) = mass[b]

\* C3: if the ensemble's weights sum to 1 when _run_we starts, they sum to
\* 1 when it ends.
C3_EnsembleWeightConserved ==
    (pc = "done" /\ EnsembleWeight(bins0) = One)
    => EnsembleWeight(next_iter_binning) = One

\* C4: optimize_weights returns the solver's vector only when the solver
\* reports convergence; on non-convergence it raises, the exception ends
\* _run_we, and the caller's weight vector is not replaced.
C4_ReturnsOnlyOnConvergence ==
    /\ pc = "ideal" => (result.success /\ weights = result.x)
    /\ (result # NoResult /\ ~result.success) =>
          /\ pc = "error"
          /\ err = "OptimizationError"
          /\ weights = [k \in 1..Len(segments) |-> segments[k].weight]

\* C4 witness: the solver stopped without converging, at a point that is
\* not the start vector
C4_Witness ==
    /\ pc = "error" /\ err = "OptimizationError"
    /\ ~result.success
    /\ Len(result.x) = 2
    /\ result.x # weights

\* C5: when the optimizer fails to converge for a bin, the bin's walkers
\* and their weights are as they were before the reweight step.
C5_FailedReweightKeepsBin ==
    (pc = "error" /\ err = "OptimizationError")
    => next_iter_binning[ibin] = pre_bin

\* C5 witness: the failure happened in the second bin, on a solver point
\* that differs from the walkers' weights
C5_Witness ==
    /\ pc = "error" /\ err = "OptimizationError"
    /\ ibin = 2
    /\ result.x # [k \in 1..Len(segments) |-> segments[k].weight]
    /\ next_iter_binning[ibin] = pre_bin

\* C6: when a histogram or configuration error ends _run_we, every bin has
\* the walkers and weights it had before resampling began.
C6_NoPartialCommit ==
    (pc = "error" /\ err \in {"InvalidInputError", "ConfigurationError"})
    => next_iter_binning = bins0

\* C7: a bin that holds walkers and has target count 0 is rejected with a
\* ConfigurationError before resampling begins: no bin is changed, no
\* ideal weight is computed and no count is adjusted.
C7_ZeroTargetRejected ==
    (\E b \in Bins : bin_target_counts[b] = 0 /\ bins0[b] # {}) =>
        /\ pc \in {"start", "recycled", "error"}
        /\ pc = "error" => err = "ConfigurationError"
        /\ next_iter_binning = bins0
        /\ ideal_weight = Zero
        /\ \A b \in Bins : adjust_runs[b] = 0 /\ nsub[b] = 0

\* C7 witness: the rejection came while an earlier bin, with a positive
\* target count, still held its walkers untouched
C7_Witness ==
    /\ pc = "error" /\ err = "ConfigurationError"
    /\ bin_target_counts[1] > 0 /\ next_iter_binning[1] # {}
    /\ bin_target_counts[2] = 0 /\ next_iter_binning[2] # {}

\* C8: when the subgroup function returns zero subgroups for a bin that
\* holds walkers, _run_we fails with a ConfigurationError and the bin keeps
\* its walkers.
C8_ZeroSubgroupsRejected ==
    \A b \in processed :
        nsub[b] = 0 =>
            /\ err = "ConfigurationError"
            /\ next_iter_binning[b] = bins0[b]

InBounds(w) ==
    /\ RLe(smallest_allowed_weight, w.weight)
    /\ RLe(w.weight, largest_allowed_weight)

\* C9: with do_thresholds set, after the threshold pass every walker left
\* in the bin is within [smallest_allowed_weight, largest_allowed_weight]
\* or has a warning, the warned walkers stay in the bin and no error is
\* raised for them; with do_thresholds off the step changes no bin and
\* emits no warning.
C9_ThresholdsAdvisory ==
    [][pc = "threshold" =>
        IF do_thresholds
        THEN pc' = "count" =>
                /\ err' = "none"
                /\ \A w \in next_iter_binning'[ibin] :
                      InBounds(w) \/ w \in warned'[ibin]
                /\ warned'[ibin] \subseteq next_iter_binning'[ibin]
        ELSE /\ pc' = "count"
             /\ err' = "none"
             /\ next_iter_binning' = next_iter_binning
             /\ warned' = warned]_vars

\* C9 witness: the threshold pass ended with a warning for one walker of
\* the bin and none for another
C9_Witness ==
    /\ pc = "count" /\ do_thresholds
    /\ warned[ibin] # {}
    /\ \E w \in next_iter_binning[ibin] : w \notin warned[ibin]

\* C10: the vector optimize_weights returns has one entry per walker,
\* every entry within [0, 1], and the entries sum to 1.
C10_ReturnedWeightsOnSimplex ==
    pc = "ideal" =>
        /\ Len(weights) = Cardinality(pre_bin)
        /\ \A k \in 1..Len(weights) :
              /\ weights[k][1] >= 0
              /\ weights[k][1] <= weights[k][2]
        /\ SeqSum(weights) = <<1, 1>>

\* C10 witness: a returned vector that touches both bounds
C10_Witness ==
    /\ pc = "ideal"
    /\ Len(weights) = 2
    /\ \E k \in 1..2 : weights[k] = <<0, 1>>
    /\ \E k \in 1..2 : weights[k] = <<1, 1>>

\* C11: threshold bounds with smallest_allowed_weight above
\* largest_allowed_weight are rejected with a ConfigurationError: with
\* do_thresholds set, _run_we gets no further than its pre-check and the
\* only way it ends is that error, so the threshold pass never reads them.
C11_InconsistentThresholdsRejected ==
    (do_thresholds /\ RLt(largest_allowed_weight, smallest_allowed_weight)) =>
        /\ pc \in {"start", "recycled", "error"}
        /\ pc = "error" => err = "ConfigurationError"

\* the steps of one bin that follow the clearing of the bin at line 57
AfterClear == {"resample", "adjust", "threshold", "count"}

\* the weight vector is set on the walkers of the bin, entry k on the
\* walker segments[k]
Applied ==
    /\ Len(weights) = Len(segments)
    /\ next_iter_binning[ibin] = WriteBack(pre_bin, segments, weights)
    /\ \A k \in 1..Len(segments) :
          \E w \in next_iter_binning[ibin] :
              w.id = segments[k].id /\ w.weight = weights[k]

\* C12: while a bin waits for its reweight step nothing of it has changed;
\* when the reweight step is over its weights are on the bin's walkers and
\* the bin is neither cleared nor resampled yet; in every later step of the
\* bin the ideal weight has been computed once and is the sum of the
\* reweighted weights divided by target_count.
C12_ReweightBeforeResampling ==
    /\ pc = "reweight" =>
          /\ next_iter_binning[ibin] = pre_bin
          /\ ideal_runs[ibin] = 0 /\ adjust_runs[ibin] = 0
    /\ pc = "ideal" =>
          /\ result.success /\ weights = result.x
          /\ Applied
          /\ ideal_runs[ibin] = 0 /\ adjust_runs[ibin] = 0
    /\ pc \in AfterClear =>
          /\ ideal_runs[ibin] = 1
          /\ ideal_weight = RDivInt(mass[ibin], bin_target_counts[ibin])
    /\ \A b \in processed : ideal_runs[b] = 1

\* C12 witness: the reweight step changed the summed weight of a bin, and
\* the ideal weight was then computed
C12_Witness ==
    /\ pc = "resample"
    /\ SumW(pre_bin) # mass[ibin]
    /\ ideal_runs[ibin] = 1

\* C13: once the reweighter has been called for a bin (and until the bin is
\* cleared), the weight vector has one entry per walker whose pcoords were
\* passed as candidate samples, entry i and sample row i belong to the same
\* walker, and the returned weights are set on exactly those walkers, entry
\* i on walker i.
C13_WeightsMatchCandidates ==
    curr_segments # <<>> =>
        /\ Len(weights) = Len(curr_segments)
        /\ \A i \in 1..Len(weights) :
              segments[i].parent_id = curr_segments[i].id
        /\ pc = "ideal" => Applied

\* C14: when a bin has at least target_count subgroups, the merge phase
\* (when it returns) leaves in place of every subgroup of more than one
\* walker a single walker that continues one of the subgroup's members and
\* weighs what the subgroup weighed, leaves the other subgroups as they
\* were, and fills the bin with exactly these walkers, one per subgroup.
C14_MergePhase ==
    [][(/\ pc = "resample"
        /\ Len(subgroups) >= bin_target_counts[ibin]
        /\ pc' = "adjust") =>
          /\ Len(subgroups') = Len(subgroups)
          /\ \A k \in 1..Len(subgroups) :
                IF Cardinality(subgroups[k]) > 1
                THEN \E g \in subgroups'[k] :
                        /\ subgroups'[k] = {g}
                        /\ g.weight = SumW(subgroups[k])
                        /\ \E s \in subgroups[k] : g.parent_id = s.parent_id
                ELSE subgroups'[k] = subgroups[k]
          /\ next_iter_binning'[ibin] =
                UNION {subgroups'[k] : k \in 1..Len(subgroups)}
          /\ Cardinality(next_iter_binning'[ibin]) = Len(subgroups)]_vars

\* C14 witness: a bin of two walkers in one subgroup has been merged into
\* one walker
C14_Witness ==
    /\ pc = "adjust"
    /\ nsub[ibin] = 1 /\ bin_target_counts[ibin] = 1
    /\ Cardinality(pre_bin) = 2
    /\ Cardinality(next_iter_binning[ibin]) = 1

\* the steps of one bin that come before its count adjustment
BeforeAdjust == {"reweight", "ideal", "resample", "adjust"}

\* C15: _adjust_count has not run for a bin before the bin's subgroup
\* phase is over; once the bin is at or past threshold enforcement it has
\* run once if the bin had more subgroups than target_count, once if it had
\* fewer and do_adjust_counts is set, and not at all otherwise (equal
\* numbers, or fewer with do_adjust_counts off); a bin the loop never
\* entered has no run.
C15_AdjustRunsWhenDue ==
    \A b \in Bins :
        LET due == \/ nsub[b] > bin_target_counts[b]
                   \/ nsub[b] < bin_target_counts[b] /\ do_adjust_counts
            past == \/ b \in processed
                    \/ b = ibin /\ pc \in {"threshold", "count"}
            ahead == \/ b = ibin /\ pc \in BeforeAdjust
                     \/ b > ibin
                     \/ pc \in {"start", "recycled"}
                     \/ bins0[b] = {}
        IN /\ past => adjust_runs[b] = (IF due THEN 1 ELSE 0)
           /\ ahead => adjust_runs[b] = 0
           /\ adjust_runs[b] <= 1

\* C15 witness: a bin with more subgroups than target_count went through
\* _adjust_count with do_adjust_counts off
C15_Witness ==
    /\ pc = "threshold"
    /\ ~do_adjust_counts
    /\ nsub[ibin] > bin_target_counts[ibin]
    /\ adjust_runs[ibin] = 1

\* C16: when kl_divergence has built its two histograms, both were binned
\* on the same edges, whatever the two sample arrays are.
C16_SameBinEdges ==
    (w_pc = "scored" /\ simulated_hist.raised = "none") =>
        true_hist.bin_edges = simulated_hist.bin_edges

\* pcoords[..., 0]: entry 0 along the last axis, for every entry of the
\* axes before it
FirstOfLastAxis(pcoords) ==
    LET sh == pcoords.shape
        front == SubSeq(sh, 1, Len(sh) - 1)
    IN Array(front, [k \in 1..Size(front) |->
                        pcoords.flat[(k - 1) * sh[Len(sh)] + 1]])

\* C17: for a pcoords array with more than one axis, self.pcoords holds
\* the first coordinate of every frame of every walker (of every walker,
\* for a walker x dimension array) and nothing else.
C17_FirstAxisEveryFrame ==
    (w_pc # "new" /\ Len(w_pcoords.shape) >= 2) =>
        self_pcoords = FirstOfLastAxis(w_pcoords)

\* C18: bin_data called on an empty sample array raises InvalidInputError
\* and returns no histogram.
C18_EmptySamplesRejected ==
    (w_pc = "binned" /\ data = <<>>) =>
        /\ hist.raised = "InvalidInputError"
        /\ hist.hist = <<>>

\* the bins that held walkers when _run_we started
NonEmptyBins == {b \in Bins : bins0[b] # {}}

\* C19: every step of _run_we keeps the order recycle, pre-check, bins,
\* post-check: the first step is the recycling and the second the
\* pre-check; no bin changes before the pre-check has passed; the
\* post-check (the step that ends the run as done or with its
\* ConsistencyError) comes when the loop is past the last bin and every
\* bin that held walkers has been processed; and a bin that is empty when
\* the loop reaches it is passed over: it stays empty, no subgroups are
\* asked for, no reweighter is called, and the totals stay as they are.
C19_LifecycleOrder ==
    [][/\ pc = "start" => pc' = "recycled"
       /\ pc = "recycled" => pc' \in {"loop", "error"}
       /\ pc \in {"start", "recycled"} =>
             /\ next_iter_binning' = bins0
             /\ processed' = {}
       /\ (pc' = "done" \/ err' = "ConsistencyError") =>
             /\ pc = "loop" /\ ibin > NBins
             /\ processed = NonEmptyBins
             /\ next_iter_binning' = next_iter_binning
       /\ (pc = "loop" /\ ibin <= NBins /\ next_iter_binning[ibin] = {}) =>
             /\ pc' = "loop" /\ ibin' = ibin + 1
             /\ next_iter_binning' = next_iter_binning
             /\ UNCHANGED <<subgroups, nsub, segments, weights,
                            curr_segments, result, processed,
                            total_number_of_subgroups,
                            total_number_of_particles>>]_vars

\* C19 witness: a run ended after the post-check, having passed over the
\* empty first bin and processed the second
C19_Witness ==
    /\ pc = "done"
    /\ bins0[1] = {}
    /\ processed = {2}
    /\ next_iter_binning[1] = {}
    /\ nsub[1] = 0

====
